---- MODULE Spec2Model ----
\* A model of mpl_image_labeller.image_labeller: the constructor, the labels
\* and image_index properties and the key-press dispatcher, with the events
\* the observer registry delivers.
EXTENDS Integers, Sequences, FiniteSets

\* ------------------------------------------------------------------ bounds
\* Largest number of images of a constructed instance.
MaxN == 2
\* Largest number of classes.
MaxClasses == 2
\* Longest explicit keymap list.
MaxKeymapLen == 2
\* Largest number of classes given to a preset keymap.
MaxPresetClasses == 11
\* Presses of a labelling run beyond one per image.
MaxExtraPresses == 1

\* ------------------------------------------------------------ Python values
\* Python's None as a label value (class identifiers are other strings).
None == "None"

\* The class identifiers the class lists are built from.
ClassNames ==
    <<"good", "bad", "meh", "c4", "c5", "c6", "c7", "c8", "c9", "c10", "c11", "c12", "c13">>

\* The tokens explicit keymap lists are built from.
CustomTokens == {"a", "s"}

\* A token that is neither a navigation key nor in any keymap.
OtherKey == "x"

\* str(n) for one decimal digit n.
Str(n) == <<"0", "1", "2", "3", "4", "5", "6", "7", "8", "9">>[n + 1]

\* The string "qwertyuiop" as its characters.
Qwertyuiop == <<"q", "w", "e", "r", "t", "y", "u", "i", "o", "p">>

\* Sequences over S of length lo..hi.
SeqsOf(S, lo, hi) == UNION {[1..n -> S] : n \in lo..hi}

\* [x] * n for a Python list: the empty list when n <= 0.
Repeat(x, n) == [i \in 1..(IF n > 0 THEN n ELSE 0) |-> x]

\* ----------------------------------------------------- constructor arguments
\* label_keymap as a str or a list: a str is the sequence of its characters.
Preset1234 == [is_str |-> TRUE, items |-> <<"1", "2", "3", "4">>]
PresetQwerty == [is_str |-> TRUE, items |-> <<"q", "w", "e", "r", "t", "y">>]

KeymapArgs ==
    {Preset1234, PresetQwerty}
        \cup {[is_str |-> FALSE, items |-> s] : s \in SeqsOf(CustomTokens, 0, MaxKeymapLen)}

\* images: a callable (with N_images None or an int) or a collection of len
\* images; N_images is read only when images is a callable.
ImagesArgs ==
    {[callable |-> TRUE, len |-> 0, N_is_int |-> FALSE, N_images |-> 0]}
        \cup {[callable |-> TRUE, len |-> 0, N_is_int |-> TRUE, N_images |-> n] : n \in (-1)..MaxN}
        \cup {[callable |-> FALSE, len |-> n, N_is_int |-> FALSE, N_images |-> 0] : n \in 0..MaxN}

LabelValues == {None, ClassNames[1]}

\* init_labels: None or a list of labels.
InitLabelsArgs ==
    {[is_none |-> TRUE, value |-> <<>>]}
        \cup {[is_none |-> FALSE, value |-> s] : s \in SeqsOf(LabelValues, 0, MaxN)}

ClassesArgs == {SubSeq(ClassNames, 1, c) : c \in 0..MaxClasses}

\* All the argument tuples of image_labeller(...).
Args ==
    [images : ImagesArgs, classes : ClassesArgs, init_labels : InitLabelsArgs,
     label_keymap : KeymapArgs, labelling_advances_image : BOOLEAN,
     multiclass : BOOLEAN]

\* -------------------------------------------------------------------- state
VARIABLES
    args,    \* the arguments the constructor is called with
    phase,   \* "new" before the constructor ran, then "ready" or "failed"
    self,    \* the image_labeller instance: its fields
    last,    \* the operation that ran last: its input, the state it started
             \* from, the events the observers received and what it raised
    prev,    \* the operation before that one when last repeats it (the same
             \* class key pressed again, the same value assigned to
             \* image_index again), NoOp otherwise
    run      \* the tally of a labelling run (LabellingPress): the class keys
             \* pressed since construction and the events delivered for them

vars == <<args, phase, self, last, prev, run>>

\* ---------------------------------------------------------- Python indexing
\* seq[i] is defined for -len <= i < len; a negative i counts from the end.
PyValid(seq, i) == -Len(seq) <= i /\ i < Len(seq)
PyPos(seq, i) == IF i >= 0 THEN i + 1 ELSE Len(seq) + i + 1

\* np.zeros((n, c), dtype=bool), rows and columns as sequences.
Zeros(n, c) == [i \in 1..n |-> [j \in 1..c |-> FALSE]]

\* The image an index names; images are told apart by the index they sit at.
Image(i) == IF i < 0 THEN "image-" \o Str(-i) ELSE "image" \o Str(i)

\* A step of a method: the instance, the events emitted so far, the instance
\* as each observer found it when its callback ran (process calls the
\* callbacks before it returns), and the exception raised ("none" while the
\* method is still running).
Frame(obj) == [self |-> obj, events |-> <<>>, seen |-> <<>>, raised |-> "none"]
Raise(f, exc) == [f EXCEPT !.raised = exc]
Emit(f, e) == [f EXCEPT !.events = Append(@, e), !.seen = Append(@, f.self)]

\* ------------------------------------------------------------------ helpers
\* _get_image(i) raises IndexError when images is a collection and i is
\* outside it; a callable is taken to answer every index.
ImageRaises(obj, i) ==
    ~obj._images.callable /\ ~(-obj._images.len <= i /\ i < obj._images.len)

_get_image(obj, i) ==
    IF obj._images.callable THEN Image(i)
    ELSE Image(IF i >= 0 THEN i ELSE obj._images.len + i)

\* _util.onehot_to_list: per row the class of the only true column, None for
\* a row with none, "ambiguous" for a row with several.
onehot_to_list(onehot, classes) ==
    [i \in 1..Len(onehot) |->
        LET on == {j \in 1..Len(onehot[i]) : onehot[i][j]}
        IN  IF on = {} THEN None
            ELSE IF Cardinality(on) = 1 /\ (CHOOSE j \in on : TRUE) <= Len(classes)
                 THEN classes[CHOOSE j \in on : TRUE]
                 ELSE "ambiguous"]

\* _util.list_to_onehot: row i has column j true iff labels[i] is class j.
list_to_onehot(labels, classes) ==
    [i \in 1..Len(labels) |-> [j \in 1..Len(classes) |-> labels[i] = classes[j]]]

\* The title text: the index and, in exclusive mode, the label of that index.
TitleText(index, label) == [index |-> index, label |-> label]

\* _update_title: reads self._labels[self._image_index] in exclusive mode.
_update_title(f) ==
    IF f.raised # "none" THEN f
    ELSE LET obj == f.self
         IN  IF obj._multi
             THEN [f EXCEPT !.self.title = TitleText(obj._image_index, <<>>)]
             ELSE IF ~PyValid(obj._labels, obj._image_index)
                  THEN Raise(f, "IndexError")
                  ELSE [f EXCEPT !.self.title =
                            TitleText(obj._image_index,
                                <<obj._labels[PyPos(obj._labels, obj._image_index)]>>)]

\* on_state_change writing the new state to the row of every image.
on_state_change_AllRows(f, new_state) ==
    IF f.raised # "none" THEN f
    ELSE LET obj == f.self
         IN  IF ~PyValid(obj._onehot, obj._image_index)
             THEN Raise(f, "IndexError")
             ELSE [f EXCEPT !.self._onehot = [i \in 1..Len(obj._onehot) |-> new_state]]

\* The callback the constructor registers on the buttons in multiclass mode:
\* self._onehot[self._image_index] = new_state.
\* A state of one button is written to every column of the row and a state
\* of any other length that is not the row's raises ValueError (numpy
\* broadcasting).
on_state_change(f, new_state) ==
    IF f.raised # "none" THEN f
    ELSE LET obj == f.self
         IN  IF ~PyValid(obj._onehot, obj._image_index)
             THEN Raise(f, "IndexError")
             ELSE LET row == PyPos(obj._onehot, obj._image_index)
                  IN  IF Len(new_state) = Len(obj._onehot[row])
                      THEN [f EXCEPT !.self._onehot[row] = new_state]
                      ELSE IF Len(new_state) = 1
                      THEN [f EXCEPT !.self._onehot[row] =
                                [j \in 1..Len(obj._onehot[row]) |-> new_state[1]]]
                      ELSE Raise(f, "ValueError")

\* _widgets.button_array.set_states: the buttons show the states and, unless
\* inside no_callbacks(), the state-change callback runs with them.
set_states(f, states, callbacks) ==
    IF f.raised # "none" THEN f
    ELSE LET g == [f EXCEPT !.self._buttons = states]
         IN  IF callbacks THEN on_state_change(g, states) ELSE g

\* _widgets.button_array on a click on button j: the button toggles and the
\* state-change callback runs with the new states of the buttons.
click(f, j) ==
    set_states(f, [f.self._buttons EXCEPT ![j] = ~@], TRUE)

\* _update_displayed: show the image of self._image_index, re-render the
\* title, deliver image-changed, and in multiclass mode set the buttons.
_update_displayed(f) ==
    IF f.raised # "none" THEN f
    ELSE IF ImageRaises(f.self, f.self._image_index) THEN Raise(f, "IndexError")
    ELSE LET image == _get_image(f.self, f.self._image_index)
             shown == [f EXCEPT !.self._im = image]
             titled == _update_title(shown)
             told == IF titled.raised # "none" THEN titled
                     ELSE Emit(titled, [kind |-> "image-changed",
                                        index |-> titled.self._image_index,
                                        value |-> image])
         IN  IF told.raised # "none" \/ ~told.self._multi THEN told
             ELSE IF ~PyValid(told.self._onehot, told.self._image_index)
                  THEN Raise(told, "IndexError")
                  ELSE set_states(told,
                           told.self._onehot[PyPos(told.self._onehot, told.self._image_index)],
                           FALSE)

\* gen_key_press_handler(skip_keys) with the skip test left out.
handler_NoSkip(skip_keys, key) == TRUE

\* The handler gen_key_press_handler(skip_keys) returns, on event.key = key:
\* TRUE when it goes on to matplotlib's default key_press_handler.
handler(skip_keys, key) == key \notin skip_keys

\* The image_index setter without the quick returns at the two ends: a
\* clamped write shows the image again.
image_index_setter_NoBoundaryReturn(f, value) ==
    IF f.raised # "none" THEN f
    ELSE LET obj == f.self
         IN  IF value = obj._image_index THEN f
             ELSE IF value >= obj._N_images
                  THEN _update_displayed([f EXCEPT !.self._image_index = obj._N_images - 1])
             ELSE IF value < 0
                  THEN _update_displayed([f EXCEPT !.self._image_index = 0])
             ELSE _update_displayed([f EXCEPT !.self._image_index = value])

\* The image_index setter.
image_index_setter(f, value) ==
    IF f.raised # "none" THEN f
    ELSE LET obj == f.self
         IN  IF value = obj._image_index THEN f
             ELSE IF value >= obj._N_images
                  THEN IF obj._image_index = obj._N_images - 1 THEN f
                       ELSE _update_displayed([f EXCEPT !.self._image_index = obj._N_images - 1])
             ELSE IF value < 0
                  THEN IF obj._image_index = 0 THEN f
                       ELSE _update_displayed([f EXCEPT !.self._image_index = 0])
             ELSE _update_displayed([f EXCEPT !.self._image_index = value])

\* The labels getter.
labels(obj) ==
    IF obj._multi THEN onehot_to_list(obj._onehot, obj._classes) ELSE obj._labels

\* The labels setter applying the value before it checks its length.
labels_setter_AppliesFirst(f, value) ==
    IF f.raised # "none" THEN f
    ELSE LET applied == IF f.self._multi
                        THEN [f EXCEPT !.self._onehot = list_to_onehot(value, f.self._classes)]
                        ELSE [f EXCEPT !.self._labels = value]
         IN  IF Len(value) # f.self._N_images THEN Raise(applied, "ValueError") ELSE applied

\* The labels setter.
labels_setter(f, value) ==
    IF f.raised # "none" THEN f
    ELSE IF Len(value) # f.self._N_images THEN Raise(f, "ValueError")
    ELSE IF f.self._multi
         THEN [f EXCEPT !.self._onehot = list_to_onehot(value, f.self._classes)]
         ELSE [f EXCEPT !.self._labels = value]

\* The labels_onehot getter.
labels_onehot(obj) ==
    IF obj._multi THEN obj._onehot ELSE list_to_onehot(obj._labels, obj._classes)

\* -------------------------------------------------------------- key presses
LabelAssigned(index, klass) == [kind |-> "label-assigned", index |-> index, value |-> klass]

\* AssignLabel setting the entry in multiclass mode instead of flipping it.
AssignLabel_SetsTrue(f, key) ==
    LET obj == f.self
        which_label == obj._label_keymap[key]
    IN  IF ~(which_label < Len(obj._classes)) THEN Raise(f, "IndexError")
        ELSE LET klass == obj._classes[which_label + 1]
                 stored ==
                     IF obj._multi
                     THEN IF ~PyValid(obj._onehot, obj._image_index)
                          THEN Raise(f, "IndexError")
                          ELSE LET row == PyPos(obj._onehot, obj._image_index)
                                   img_labels == [obj._onehot[row] EXCEPT ![which_label + 1] = TRUE]
                               IN  set_states([f EXCEPT !.self._onehot[row] = img_labels],
                                              img_labels, TRUE)
                     ELSE IF ~PyValid(obj._labels, obj._image_index)
                          THEN Raise(f, "IndexError")
                          ELSE [f EXCEPT !.self._labels[PyPos(obj._labels, obj._image_index)] = klass]
             IN  IF stored.raised # "none" THEN stored
                 ELSE Emit(stored, LabelAssigned(obj._image_index, klass))

\* AssignLabel clearing, in exclusive mode, a label that already is the class
\* of the key (a toggle).
AssignLabel_TogglesExclusive(f, key) ==
    LET obj == f.self
        which_label == obj._label_keymap[key]
    IN  IF ~(which_label < Len(obj._classes)) THEN Raise(f, "IndexError")
        ELSE LET klass == obj._classes[which_label + 1]
                 stored ==
                     IF obj._multi
                     THEN IF ~PyValid(obj._onehot, obj._image_index)
                          THEN Raise(f, "IndexError")
                          ELSE LET row == PyPos(obj._onehot, obj._image_index)
                                   img_labels == [obj._onehot[row] EXCEPT ![which_label + 1] = ~@]
                               IN  set_states([f EXCEPT !.self._onehot[row] = img_labels],
                                              img_labels, TRUE)
                     ELSE IF ~PyValid(obj._labels, obj._image_index)
                          THEN Raise(f, "IndexError")
                          ELSE [f EXCEPT !.self._labels[PyPos(obj._labels, obj._image_index)] =
                                    IF @ = klass THEN None ELSE klass]
             IN  IF stored.raised # "none" THEN stored
                 ELSE Emit(stored, LabelAssigned(obj._image_index, klass))

\* AssignLabel delivering label-assigned before it stores the label.
AssignLabel_EmitsFirst(f, key) ==
    LET obj == f.self
        which_label == obj._label_keymap[key]
    IN  IF ~(which_label < Len(obj._classes)) THEN Raise(f, "IndexError")
        ELSE LET klass == obj._classes[which_label + 1]
                 told == Emit(f, LabelAssigned(obj._image_index, klass))
             IN  IF obj._multi
                 THEN IF ~PyValid(obj._onehot, obj._image_index)
                      THEN Raise(f, "IndexError")
                      ELSE LET row == PyPos(obj._onehot, obj._image_index)
                               img_labels == [obj._onehot[row] EXCEPT ![which_label + 1] = ~@]
                           IN  set_states([told EXCEPT !.self._onehot[row] = img_labels],
                                          img_labels, TRUE)
                 ELSE IF ~PyValid(obj._labels, obj._image_index)
                      THEN Raise(f, "IndexError")
                      ELSE [told EXCEPT !.self._labels[PyPos(obj._labels, obj._image_index)] = klass]

\* The class-key branch of _key_press, from the class lookup to the event.
AssignLabel(f, key) ==
    LET obj == f.self
        which_label == obj._label_keymap[key]
    IN  IF ~(which_label < Len(obj._classes)) THEN Raise(f, "IndexError")
        ELSE LET klass == obj._classes[which_label + 1]
                 stored ==
                     IF obj._multi
                     THEN IF ~PyValid(obj._onehot, obj._image_index)
                          THEN Raise(f, "IndexError")
                          ELSE LET row == PyPos(obj._onehot, obj._image_index)
                                   img_labels == [obj._onehot[row] EXCEPT ![which_label + 1] = ~@]
                               IN  set_states([f EXCEPT !.self._onehot[row] = img_labels],
                                              img_labels, TRUE)
                     ELSE IF ~PyValid(obj._labels, obj._image_index)
                          THEN Raise(f, "IndexError")
                          ELSE [f EXCEPT !.self._labels[PyPos(obj._labels, obj._image_index)] = klass]
             IN  IF stored.raised # "none" THEN stored
                 ELSE Emit(stored, LabelAssigned(obj._image_index, klass))

\* AdvanceOrTitle with the advance forgotten: the title alone is re-rendered.
AdvanceOrTitle_NoAdvance(f) == _update_title(f)

\* AdvanceOrTitle without the test for the last image: the image is shown
\* again there.
AdvanceOrTitle_Redisplay(f) ==
    IF f.raised # "none" THEN f
    ELSE IF f.self._label_advances /\ ~f.self._multi
         THEN IF f.self._image_index = f.self._N_images - 1
              THEN _update_displayed(f)
              ELSE image_index_setter(f, f.self._image_index + 1)
         ELSE _update_title(f)

\* AdvanceOrTitle advancing in multiclass mode too.
AdvanceOrTitle_IgnoresMulti(f) ==
    IF f.raised # "none" THEN f
    ELSE IF f.self._label_advances
         THEN IF f.self._image_index = f.self._N_images - 1
              THEN _update_title(f)
              ELSE image_index_setter(f, f.self._image_index + 1)
         ELSE _update_title(f)

\* AdvanceOrTitle going back to the first image after the last.
AdvanceOrTitle_Wraps(f) ==
    IF f.raised # "none" THEN f
    ELSE IF f.self._label_advances /\ ~f.self._multi
         THEN IF f.self._image_index = f.self._N_images - 1
              THEN image_index_setter(f, 0)
              ELSE image_index_setter(f, f.self._image_index + 1)
         ELSE _update_title(f)

\* What follows the event: advance to the next image or re-render the title.
AdvanceOrTitle(f) ==
    IF f.raised # "none" THEN f
    ELSE IF f.self._label_advances /\ ~f.self._multi
         THEN IF f.self._image_index = f.self._N_images - 1
              THEN _update_title(f)
              ELSE image_index_setter(f, f.self._image_index + 1)
         ELSE _update_title(f)

\* _key_press taking every key that is not left for right.
_key_press_ElseRight(f, key) ==
    IF key = "left" THEN image_index_setter(f, f.self._image_index - 1)
    ELSE IF key \in DOMAIN f.self._label_keymap THEN AdvanceOrTitle(AssignLabel(f, key))
    ELSE image_index_setter(f, f.self._image_index + 1)

\* _key_press(event), event.key = key.
_key_press(f, key) ==
    IF key = "left" THEN image_index_setter(f, f.self._image_index - 1)
    ELSE IF key = "right" THEN image_index_setter(f, f.self._image_index + 1)
    ELSE IF key \in DOMAIN f.self._label_keymap THEN AdvanceOrTitle(AssignLabel(f, key))
    ELSE f

\* -------------------------------------------------------------- constructor
\* {tokens[i]: i for i in range(len(tokens))}: a repeated token keeps the
\* index of its last occurrence (indices count from 0).
DictOf(tokens) ==
    [t \in {tokens[i] : i \in DOMAIN tokens} |->
        CHOOSE i \in 0..(Len(tokens) - 1) :
            /\ tokens[i + 1] = t
            /\ \A j \in 0..(Len(tokens) - 1) : tokens[j + 1] = t => j <= i]

\* The number of digit keys the preset "1234" has.
NumberKeys == 10

\* The tokens the keymap specification assigns, in class order.
KeymapTokens(label_keymap, classes) ==
    IF label_keymap = Preset1234
    THEN [i \in 1..Len(classes) |-> Str(i % 10)]
    ELSE IF label_keymap = PresetQwerty
    THEN [i \in 1..Len(classes) |-> Qwertyuiop[i]]
    ELSE label_keymap.items

\* KeymapRaises refusing a preset already at as many classes as it has keys.
KeymapRaises_OffByOne(label_keymap, classes) ==
    \/ label_keymap = Preset1234 /\ Len(classes) >= NumberKeys
    \/ label_keymap = PresetQwerty /\ Len(classes) >= Len(Qwertyuiop)

\* Whether the keymap specification is refused: a preset with too many classes.
KeymapRaises(label_keymap, classes) ==
    \/ label_keymap = Preset1234 /\ Len(classes) > NumberKeys
    \/ label_keymap = PresetQwerty /\ Len(classes) > Len(Qwertyuiop)

\* The number of buttons built: one per pair of zip(keymap.keys(), classes).
NButtons(keymap, classes) ==
    IF Cardinality(DOMAIN keymap) < Len(classes)
    THEN Cardinality(DOMAIN keymap) ELSE Len(classes)

\* The fields before the constructor has set them.
Blank ==
    [_multi |-> FALSE, _images |-> [callable |-> FALSE, len |-> 0, N_is_int |-> FALSE, N_images |-> 0],
     _N_images |-> 0, _label_advances |-> FALSE, _labels |-> <<>>, _onehot |-> <<>>,
     _label_keymap |-> DictOf(<<>>), _classes |-> <<>>, skip_keys |-> {},
     _image_index |-> 0, _im |-> "", title |-> TitleText(0, <<>>), _buttons |-> <<>>]

\* image_labeller.__init__ on the arguments a: the instance it builds, or
\* the exception it raises.
Construct(a) ==
    LET N == IF a.images.callable THEN a.images.N_images ELSE a.images.len
        sized == [Blank EXCEPT !._multi = a.multiclass, !._images = a.images,
                               !._N_images = N,
                               !._label_advances = a.labelling_advances_image]
        labelled == [sized EXCEPT !._labels = IF a.init_labels.is_none
                                              THEN Repeat(None, N)
                                              ELSE a.init_labels.value,
                                  !._onehot = Zeros(N, Len(a.classes))]
        keymap == DictOf(KeymapTokens(a.label_keymap, a.classes))
        keyed == [labelled EXCEPT !._label_keymap = keymap,
                                  !._classes = a.classes,
                                  !.skip_keys = DOMAIN keymap,
                                  !._image_index = 0,
                                  !._im = _get_image(sized, 0),
                                  !._buttons =
                                      IF a.multiclass
                                      THEN [j \in 1..NButtons(keymap, a.classes) |-> FALSE]
                                      ELSE <<>>]
    IN  IF a.images.callable /\ ~a.images.N_is_int THEN Raise(Frame(Blank), "TypeError")
        ELSE IF ~a.init_labels.is_none /\ Len(a.init_labels.value) # N
             THEN Raise(Frame(Blank), "ValueError")
        ELSE IF N < 0 THEN Raise(Frame(Blank), "ValueError")
        ELSE IF KeymapRaises(a.label_keymap, a.classes) THEN Raise(Frame(Blank), "ValueError")
        ELSE IF ImageRaises(sized, 0) THEN Raise(Frame(Blank), "IndexError")
        ELSE IF ~a.multiclass /\ \E t \in DOMAIN keymap : ~(keymap[t] < Len(a.classes))
             THEN Raise(Frame(Blank), "IndexError")
        ELSE LET built == _update_title(Frame(keyed))
             IN  IF built.raised # "none" THEN Raise(Frame(Blank), built.raised) ELSE built

\* ------------------------------------------------------------ specification
\* The record of an operation: what was called with what, on which state,
\* the events the observers received, in order, the exception raised, and
\* whether the canvas' default key handler ran (key presses only).
Op(name, key, value, seq, pre, f) ==
    [op |-> name, key |-> key, value |-> value, seq |-> seq, pre |-> pre,
     events |-> f.events, seen |-> f.seen, raised |-> f.raised, default |-> FALSE]

NoOp == Op("none", "", 0, <<>>, Blank, Frame(Blank))

\* The tally before any class key was pressed.
NoRun == [presses |-> 0, label_assigned |-> 0, image_changed |-> 0]

\* The keys pressed: the navigation keys, every key of the keymap and a key
\* that is neither.
Keys == {"left", "right", OtherKey} \cup DOMAIN self._label_keymap

\* The values assigned to image_index on an instance of N images: every
\* index, the value below the range and the value above it.
IndexValues(N) == (-1)..N

\* The values assigned to labels on an instance of N images: N-1 and N+1
\* unset labels, and N labels with none of them set or the first of them set.
LabelsValues(N) ==
    {s \in SeqsOf(LabelValues, 0, MaxN + 1) :
        /\ Len(s) \in {N - 1, N, N + 1}
        /\ \A i \in DOMAIN s : i > 1 \/ Len(s) # N => s[i] = None}

\* The operation before, kept when the operation now running repeats it.
Repeated(name, key, value, seq) ==
    IF last.op = name /\ last.key = key /\ last.value = value /\ last.seq = seq
    THEN last ELSE NoOp

\* The arguments the sessions of Spec start from: no images (a callable with
\* N_images = 0, an empty collection) or a collection of 1..MaxN images; no
\* initial labels or MaxN-1 of them; the preset "1234" (exclusive mode) or a
\* list of one token repeated or two tokens alternating.
SessionArgs ==
    {a \in Args :
        /\ a.multiclass => ~a.label_keymap.is_str
        /\ a.images.callable => a.images.N_is_int /\ a.images.N_images = 0
        /\ \/ a.init_labels.is_none
           \/ a.init_labels.value = Repeat(ClassNames[1], MaxN - 1)
        /\ a.label_keymap # PresetQwerty
        /\ ~a.label_keymap.is_str =>
               \/ a.label_keymap.items = Repeat("a", Len(a.label_keymap.items))
               \/ a.label_keymap.items =
                      [i \in 1..Len(a.label_keymap.items) |-> IF i % 2 = 1 THEN "a" ELSE "s"]}

Init ==
    /\ args \in SessionArgs
    /\ phase = "new"
    /\ self = Blank
    /\ last = NoOp
    /\ prev = NoOp
    /\ run = NoRun

\* Every argument tuple, for the specification of the constructor alone.
InitAny ==
    /\ args \in Args
    /\ phase = "new"
    /\ self = Blank
    /\ last = NoOp
    /\ prev = NoOp
    /\ run = NoRun

\* labeller = image_labeller(**args)
__init__ ==
    /\ phase = "new"
    /\ LET f == Construct(args)
       IN  /\ phase' = IF f.raised = "none" THEN "ready" ELSE "failed"
           /\ self' = f.self
           /\ last' = Op("__init__", "", 0, <<>>, self, f)
    /\ prev' = NoOp
    /\ UNCHANGED <<args, run>>

\* The canvas delivers a key_press_event with event.key = key to the two
\* callbacks connected to it: the handler made by gen_key_press_handler and
\* _key_press.
KeyPress(key) ==
    /\ phase = "ready"
    /\ LET f == _key_press(Frame(self), key)
       IN  /\ self' = f.self
           /\ last' = [Op("_key_press", key, 0, <<>>, self, f)
                          EXCEPT !.default = handler(self.skip_keys, key)]
    /\ prev' = IF key \in DOMAIN self._label_keymap
               THEN Repeated("_key_press", key, 0, <<>>) ELSE NoOp
    /\ UNCHANGED <<args, phase, run>>

\* labeller.image_index = value
SetImageIndex(value) ==
    /\ phase = "ready"
    /\ LET f == image_index_setter(Frame(self), value)
       IN  /\ self' = f.self
           /\ last' = Op("image_index", "", value, <<>>, self, f)
    /\ prev' = Repeated("image_index", "", value, <<>>)
    /\ UNCHANGED <<args, phase, run>>

\* labeller.labels = value
SetLabels(value) ==
    /\ phase = "ready"
    /\ LET f == labels_setter(Frame(self), value)
       IN  /\ self' = f.self
           /\ last' = Op("labels", "", 0, value, self, f)
    /\ prev' = NoOp
    /\ UNCHANGED <<args, phase, run>>

\* The user clicks button j of the button array (multiclass mode).
ButtonClick(j) ==
    /\ phase = "ready"
    /\ self._multi
    /\ j \in DOMAIN self._buttons
    /\ LET f == click(Frame(self), j)
       IN  /\ self' = f.self
           /\ last' = Op("click", "", j, <<>>, self, f)
    /\ prev' = NoOp
    /\ UNCHANGED <<args, phase, run>>

Next ==
    \/ __init__
    \/ \E key \in Keys : KeyPress(key)
    \/ \E value \in IndexValues(self._N_images) : SetImageIndex(value)
    \/ \E value \in LabelsValues(self._N_images) : SetLabels(value)
    \/ \E j \in 1..NButtons(self._label_keymap, self._classes) : ButtonClick(j)

Spec == Init /\ [][Next]_vars

\* The constructor alone, on every argument tuple.
SpecConstruct == InitAny /\ [][__init__]_vars

\* The arguments with a preset keymap: 0..MaxPresetClasses classes, a
\* collection of 1..MaxN images, no initial labels.
PresetArgs ==
    [images : {i \in ImagesArgs : ~i.callable /\ i.len >= 1},
     classes : {SubSeq(ClassNames, 1, c) : c \in 0..MaxPresetClasses},
     init_labels : {i \in InitLabelsArgs : i.is_none},
     label_keymap : {Preset1234, PresetQwerty},
     labelling_advances_image : BOOLEAN, multiclass : BOOLEAN]

InitPresets ==
    /\ args \in PresetArgs
    /\ phase = "new"
    /\ self = Blank
    /\ last = NoOp
    /\ prev = NoOp
    /\ run = NoRun

\* The constructor alone, on the preset keymaps.
SpecPresets == InitPresets /\ [][__init__]_vars

\* The arguments of the sessions driven by the keyboard alone: a collection
\* of 1..MaxN images, up to MaxClasses+1 classes, no initial labels, and an
\* explicit keymap list of one token repeated or two tokens alternating.
KeyboardArgs ==
    [images : {i \in ImagesArgs : ~i.callable /\ i.len >= 1},
     classes : {SubSeq(ClassNames, 1, c) : c \in 0..(MaxClasses + 1)},
     init_labels : {i \in InitLabelsArgs : i.is_none},
     label_keymap : {a.label_keymap : a \in {b \in SessionArgs : ~b.label_keymap.is_str}},
     labelling_advances_image : BOOLEAN, multiclass : BOOLEAN]

InitKeyboard ==
    /\ args \in KeyboardArgs
    /\ phase = "new"
    /\ self = Blank
    /\ last = NoOp
    /\ prev = NoOp
    /\ run = NoRun

NextKeyboard ==
    \/ __init__
    \/ \E key \in Keys : KeyPress(key)

\* The states reached by construction and key presses alone.
SpecKeyboard == InitKeyboard /\ [][NextKeyboard]_vars

\* One press of a labelling run: the canvas delivers a class key, as in
\* KeyPress, and the tally counts the press and the events delivered. A run
\* goes on for MaxExtraPresses presses beyond one press per image.
LabellingPress(key) ==
    /\ phase = "ready"
    /\ run.presses < self._N_images + MaxExtraPresses
    /\ LET f == _key_press(Frame(self), key)
       IN  /\ self' = f.self
           /\ last' = [Op("_key_press", key, 0, <<>>, self, f)
                          EXCEPT !.default = handler(self.skip_keys, key)]
           /\ run' = [presses |-> run.presses + 1,
                      label_assigned |-> run.label_assigned
                                            + Len(SelectSeq(f.events, LAMBDA e : e.kind = "label-assigned")),
                      image_changed |-> run.image_changed
                                            + Len(SelectSeq(f.events, LAMBDA e : e.kind = "image-changed"))]
    /\ prev' = Repeated("_key_press", key, 0, <<>>)
    /\ UNCHANGED <<args, phase>>

NextRun ==
    \/ __init__
    \/ \E key \in DOMAIN self._label_keymap : LabellingPress(key)

\* Labelling runs: construction, then class keys and nothing else.
SpecRun == Init /\ [][NextRun]_vars

\* ------------------------------------------------------------------ claims
\* The events of one kind among the events of an operation.
EventsOf(op, kind) == SelectSeq(op.events, LAMBDA e : e.kind = kind)

ImageChanged(index, image) == [kind |-> "image-changed", index |-> index, value |-> image]

\* The last operation was a press of a key of the keymap, in exclusive mode
\* with advance-on-label enabled.
ExclusiveAdvancePress ==
    /\ phase = "ready"
    /\ last.op = "_key_press"
    /\ last.key \in DOMAIN self._label_keymap
    /\ ~self._multi
    /\ self._label_advances

\* The class a key of the keymap stands for.
KlassOf(obj, key) == obj._classes[obj._label_keymap[key] + 1]

\* C1: in exclusive mode with advance-on-label, a class-key press at an index
\* i < N-1 stores the key's class at labels[i], moves image_index to i+1 and
\* emits label-assigned (i, class) and then image-changed (i+1, image), and
\* nothing else.
C1_LabelThenAdvance ==
    ExclusiveAdvancePress /\ last.pre._image_index < self._N_images - 1 =>
        LET i == last.pre._image_index
            klass == KlassOf(self, last.key)
        IN  /\ last.raised = "none"
            /\ labels(self)[i + 1] = klass
            /\ \A j \in 1..Len(labels(self)) : j # i + 1 => labels(self)[j] = labels(last.pre)[j]
            /\ self._image_index = i + 1
            /\ last.events = <<LabelAssigned(i, klass),
                               ImageChanged(i + 1, _get_image(self, i + 1))>>

C1_Witness ==
    /\ ExclusiveAdvancePress
    /\ last.pre._image_index = 0
    /\ self._N_images >= 2
    /\ self._image_index = 1
    /\ labels(self)[1] = "bad"
    /\ Len(last.events) = 2

\* C2: in exclusive mode with advance-on-label, a class-key press at the last
\* index N-1 stores the class at labels[N-1], leaves image_index at N-1 and
\* emits one label-assigned event and no image-changed event.
C2_LastIndexStays ==
    ExclusiveAdvancePress /\ last.pre._image_index = self._N_images - 1 =>
        LET i == last.pre._image_index
            klass == KlassOf(self, last.key)
        IN  /\ last.raised = "none"
            /\ labels(self)[i + 1] = klass
            /\ self._image_index = self._N_images - 1
            /\ last.events = <<LabelAssigned(i, klass)>>
            /\ EventsOf(last, "image-changed") = <<>>

C2_Witness ==
    /\ ExclusiveAdvancePress
    /\ self._N_images >= 2
    /\ last.pre._image_index = self._N_images - 1
    /\ self._image_index = self._N_images - 1
    /\ labels(self)[self._N_images] = "good"
    /\ labels(last.pre)[self._N_images] # "good"
    /\ Len(last.events) = 1

\* The instance has a class and a key: in multiclass mode the button array
\* is not empty.
HasClasses == Len(self._classes) >= 1 /\ DOMAIN self._label_keymap # {}

\* C3: on every instance the constructor returns (stated for those with at
\* least one class and one key), in every reachable state, 0 <= image_index <= N-1.
C3_IndexInRange ==
    phase = "ready" /\ HasClasses =>
        0 <= self._image_index /\ self._image_index <= self._N_images - 1

\* The value the claim C4 gives for a write of v with N images.
Clamp(v, N) == IF v < 0 THEN 0 ELSE IF v >= N THEN N - 1 ELSE v

\* C4: an assignment image_index = v never raises and leaves image_index
\* equal to v clamped to 0..N-1 (stated for instances with at least one
\* class and one key).
C4_SetterClamps ==
    phase = "ready" /\ HasClasses /\ last.op = "image_index" =>
        /\ last.raised = "none"
        /\ self._image_index = Clamp(last.value, self._N_images)

\* An index write: an assignment to image_index or a press of left or right.
IndexWrite(op) ==
    \/ op.op = "image_index"
    \/ op.op = "_key_press" /\ op.key \in {"left", "right"}

\* C5: an index write emits exactly one image-changed event, carrying the
\* new index and its image, when the index it leaves differs from the index
\* it found, and no event at all when it does not; the same write twice in a
\* row emits at most one image-changed event.
C5_OneEventPerChange ==
    phase = "ready" /\ IndexWrite(last) =>
        /\ IF self._image_index # last.pre._image_index
           THEN last.events = <<ImageChanged(self._image_index,
                                             _get_image(self, self._image_index))>>
           ELSE last.events = <<>>
        /\ last.op = "image_index" /\ last.value = last.pre._image_index => last.events = <<>>
        /\ last.op = "image_index" /\ last.value >= self._N_images
               /\ last.pre._image_index = self._N_images - 1 => last.events = <<>>
        /\ last.op = "image_index" /\ last.value < 0
               /\ last.pre._image_index = 0 => last.events = <<>>
        /\ last.key = "left" /\ last.pre._image_index = 0 => last.events = <<>>
        /\ last.key = "right" /\ last.pre._image_index = self._N_images - 1 => last.events = <<>>
        /\ prev.op = "image_index" =>
               Len(EventsOf(prev, "image-changed")) + Len(EventsOf(last, "image-changed")) <= 1

\* An assignment that changed the index, repeated: one event, then none.
C5_Witness ==
    /\ phase = "ready"
    /\ last.op = "image_index"
    /\ prev.op = "image_index"
    /\ prev.pre._image_index # self._image_index
    /\ Len(prev.events) = 1
    /\ last.events = <<>>
    /\ last.value >= self._N_images
    /\ self._image_index = self._N_images - 1
    /\ self._N_images >= 2

\* The matrix m with the entry (row, col) flipped.
Flipped(m, row, col) == [m EXCEPT ![row][col] = ~@]

\* The last two operations were presses of the same key of the keymap, in
\* multiclass mode, on an image (the current index names a row of the
\* matrix) and for a class (the key's index names a column).
TwoTogglePresses ==
    /\ phase = "ready"
    /\ self._multi
    /\ last.op = "_key_press"
    /\ prev.op = "_key_press"
    /\ last.key \in DOMAIN self._label_keymap
    /\ self._label_keymap[last.key] < Len(self._classes)
    /\ 0 <= prev.pre._image_index
    /\ prev.pre._image_index < self._N_images

\* C6: in multiclass mode, pressing the same class key twice in a row on one
\* image flips the entry (current index, class index) each time and nothing
\* else, so the matrix is again what it was before the first press, and the
\* two presses emit one label-assigned event each, with the same index and
\* the same class.
C6_ToggleTwiceRestores ==
    TwoTogglePresses =>
        LET row == prev.pre._image_index + 1
            col == self._label_keymap[last.key] + 1
            klass == KlassOf(self, last.key)
        IN  /\ prev.raised = "none" /\ last.raised = "none"
            /\ last.pre._onehot = Flipped(prev.pre._onehot, row, col)
            /\ self._onehot = Flipped(last.pre._onehot, row, col)
            /\ self._onehot = prev.pre._onehot
            /\ labels_onehot(self) = labels_onehot(prev.pre)
            /\ self._image_index = prev.pre._image_index
            /\ prev.events = <<LabelAssigned(row - 1, klass)>>
            /\ last.events = <<LabelAssigned(row - 1, klass)>>

\* Two presses of one key on a fresh instance: the row was all false, held
\* one true entry in between, and is all false again.
C6_Witness ==
    /\ TwoTogglePresses
    /\ prev.pre._onehot = Zeros(self._N_images, Len(self._classes))
    /\ last.pre._onehot # prev.pre._onehot
    /\ self._onehot = Zeros(self._N_images, Len(self._classes))
    /\ self._N_images >= 2
    /\ Len(self._classes) >= 2
    /\ Len(prev.events) = 1
    /\ Len(last.events) = 1

\* C7: the constructor called with init_labels of length N (each of them
\* None or one of the classes) returns an instance whose labels equal the
\* init_labels passed in, in exclusive and in multiclass mode.
C7_LabelsEqualInitLabels ==
    /\ phase = "ready"
    /\ last.op = "__init__"
    /\ ~args.init_labels.is_none
    /\ \A i \in DOMAIN args.init_labels.value :
           \/ args.init_labels.value[i] = None
           \/ \E j \in DOMAIN args.classes : args.init_labels.value[i] = args.classes[j]
    => labels(self) = args.init_labels.value

\* The number of images the arguments a declare.
ArgN(a) == IF a.images.callable THEN a.images.N_images ELSE a.images.len

\* C8: a label collection whose length differs from N is rejected with an
\* error, as init_labels by the constructor and as the value of a labels
\* assignment; the rejected assignment leaves the instance as it was and
\* emits no event.
C8_LengthMismatchRejected ==
    /\ last.op = "__init__" /\ ~args.init_labels.is_none
           /\ Len(args.init_labels.value) # ArgN(args)
       => phase = "failed" /\ last.raised # "none"
    /\ last.op = "labels" /\ Len(last.seq) # self._N_images
       => /\ last.raised = "ValueError"
          /\ self = last.pre
          /\ labels(self) = labels(last.pre)
          /\ labels_onehot(self) = labels_onehot(last.pre)
          /\ self._image_index = last.pre._image_index
          /\ last.events = <<>>

\* A labels assignment of the wrong length, rejected on an instance that
\* holds a label.
C8_Witness ==
    /\ phase = "ready"
    /\ last.op = "labels"
    /\ Len(last.seq) = self._N_images + 1
    /\ last.raised = "ValueError"
    /\ \E i \in DOMAIN labels(self) : labels(self)[i] # None /\ last.seq[i] = None
    /\ self._image_index > 0

\* C9: the keymap the constructor builds maps pairwise distinct tokens to
\* valid class indices, 0..|classes|-1 (stated for instances with at least
\* one class and one key).
C9_KeymapValid ==
    phase = "ready" /\ HasClasses =>
        \A t \in DOMAIN self._label_keymap :
            /\ 0 <= self._label_keymap[t]
            /\ self._label_keymap[t] < Len(self._classes)

\* C10: on a constructed instance (stated for those with at least one
\* class and one key) no key press raises.
C10_KeyPressNeverRaises ==
    phase = "ready" /\ HasClasses /\ last.op = "_key_press" => last.raised = "none"


\* C11: a press of a key that is neither left nor right nor a key of the
\* keymap leaves image_index and every label entry (and the rest of the
\* instance) unchanged and emits no event.
C11_UnrecognizedKeyNoOp ==
    /\ phase = "ready"
    /\ last.op = "_key_press"
    /\ last.key \notin {"left", "right"}
    /\ last.key \notin DOMAIN self._label_keymap
    => /\ self._image_index = last.pre._image_index
       /\ labels(self) = labels(last.pre)
       /\ labels_onehot(self) = labels_onehot(last.pre)
       /\ self = last.pre
       /\ last.events = <<>>
       /\ last.raised = "none"

\* An unrecognized key pressed on an instance that holds a label and is not
\* at its last image.
C11_Witness ==
    /\ phase = "ready"
    /\ last.op = "_key_press"
    /\ last.key = OtherKey
    /\ self._image_index < self._N_images - 1
    /\ \E i \in DOMAIN labels(self) : labels(self)[i] # None

\* The last operation was a press of a key that names a class, on an image,
\* in multiclass mode or with advance-on-label disabled.
StayingClassPress ==
    /\ phase = "ready"
    /\ last.op = "_key_press"
    /\ last.key \in DOMAIN self._label_keymap
    /\ self._label_keymap[last.key] < Len(self._classes)
    /\ 0 <= last.pre._image_index
    /\ last.pre._image_index < self._N_images
    /\ self._multi \/ ~self._label_advances

\* C12: in multiclass mode (whatever the advance-on-label flag) or with
\* advance-on-label disabled, a class-key press leaves image_index unchanged
\* and emits no image-changed event; only the label entry of the current
\* image changes and one label-assigned event is emitted.
C12_NoAdvance ==
    StayingClassPress =>
        LET row == last.pre._image_index + 1
            col == self._label_keymap[last.key] + 1
            klass == KlassOf(self, last.key)
        IN  /\ last.raised = "none"
            /\ self._image_index = last.pre._image_index
            /\ EventsOf(last, "image-changed") = <<>>
            /\ last.events = <<LabelAssigned(row - 1, klass)>>
            /\ IF self._multi
               THEN /\ self._onehot = Flipped(last.pre._onehot, row, col)
                    /\ self._labels = last.pre._labels
               ELSE /\ self._labels = [last.pre._labels EXCEPT ![row] = klass]
                    /\ self._onehot = last.pre._onehot

\* A class key pressed in multiclass mode with advance-on-label enabled, not
\* on the last image.
C12_Witness ==
    /\ StayingClassPress
    /\ self._multi
    /\ self._label_advances
    /\ self._image_index < self._N_images - 1
    /\ Len(last.events) = 1


\* The last operation was a press of a key of the keymap in exclusive mode.
ExclusiveClassPress ==
    /\ phase = "ready"
    /\ last.op = "_key_press"
    /\ last.key \in DOMAIN self._label_keymap
    /\ ~self._multi

\* C14: in exclusive mode a class-key press stores the class of the key for
\* the image that was current, whatever was stored there (an overwrite, never
\* a toggle); with advance-on-label disabled, the same class key pressed
\* twice in a row leaves the image labelled with that class and emits one
\* label-assigned event per press.
C14_OverwriteNotToggle ==
    ExclusiveClassPress =>
        LET row == last.pre._image_index + 1
            klass == KlassOf(self, last.key)
        IN  /\ last.raised = "none"
            /\ klass # None
            /\ self._labels[row] = klass
            /\ ~self._label_advances /\ prev.op = "_key_press" =>
                   /\ prev.pre._image_index = last.pre._image_index
                   /\ last.pre._labels[row] = klass
                   /\ prev.events = <<LabelAssigned(row - 1, klass)>>
                   /\ last.events = <<LabelAssigned(row - 1, klass)>>

\* With advance-on-label disabled, the same class key pressed twice on an
\* image that held another class before.
C14_Witness ==
    /\ ExclusiveClassPress
    /\ ~self._label_advances
    /\ prev.op = "_key_press"
    /\ prev.pre._labels[last.pre._image_index + 1] \notin {None, KlassOf(self, last.key)}
    /\ self._labels[last.pre._image_index + 1] = KlassOf(self, last.key)


\* C17: the canvas' default key handler runs for a key press only if the key
\* is not a key of the keymap: every keymap key is withheld from it for as
\* long as the instance lives, while _key_press still receives the key and
\* assigns its class.
C17_KeymapKeysWithheld ==
    phase = "ready" =>
        /\ self.skip_keys = DOMAIN self._label_keymap
        /\ last.op = "_key_press" =>
               /\ last.default => last.key \notin DOMAIN self._label_keymap
               /\ last.key \in DOMAIN self._label_keymap /\ last.raised = "none" =>
                      /\ ~last.default
                      /\ EventsOf(last, "label-assigned") =
                             <<LabelAssigned(last.pre._image_index, KlassOf(self, last.key))>>

\* A keymap key pressed after other operations: withheld from the default
\* handler and dispatched to its class.
C17_Witness ==
    /\ phase = "ready"
    /\ last.op = "_key_press"
    /\ last.key \in DOMAIN self._label_keymap
    /\ ~last.default
    /\ last.pre._image_index > 0
    /\ Len(EventsOf(last, "label-assigned")) = 1


\* C18: observers run inside the operation and find the state already
\* changed. When an image-changed callback runs, image_index equals the index
\* of the event and the image of the event is the image of that index (and
\* the one shown); when a label-assigned callback runs, the label store holds
\* the assignment (or toggle) and image_index still is the index that was
\* labelled: the advance has not happened yet.
C18_ObserversSeeNewState ==
    phase = "ready" =>
        /\ Len(last.seen) = Len(last.events)
        /\ \A i \in DOMAIN last.events :
               LET e == last.events[i]
                   s == last.seen[i]
               IN  /\ s._image_index = e.index
                   /\ e.kind = "image-changed" =>
                          /\ e.value = _get_image(s, e.index)
                          /\ s._im = e.value
                   /\ e.kind = "label-assigned" =>
                          /\ e.index = last.pre._image_index
                          /\ e.value = KlassOf(self, last.key)
                          /\ IF s._multi
                             THEN s._onehot[e.index + 1][s._label_keymap[last.key] + 1]
                                      = ~last.pre._onehot[e.index + 1][s._label_keymap[last.key] + 1]
                             ELSE s._labels[e.index + 1] = e.value

\* A class-key press with advance: the label-assigned observer found the
\* label stored and the old index, the image-changed observer the new index.
C18_Witness ==
    /\ phase = "ready"
    /\ last.op = "_key_press"
    /\ Len(last.events) = 2
    /\ last.events[1].kind = "label-assigned"
    /\ last.events[2].kind = "image-changed"
    /\ last.seen[1]._image_index + 1 = last.seen[2]._image_index
    /\ last.seen[1]._labels[last.seen[1]._image_index + 1] = last.events[1].value
    /\ last.pre._labels[last.pre._image_index + 1] = None


\* C19: in exclusive mode, after every completed operation (a key press, an
\* image_index assignment, a labels assignment that succeeded) the title
\* shows the current image_index and the label stored for it.
C19_TitleCurrent ==
    phase = "ready" /\ ~self._multi /\ last.raised = "none" =>
        self.title = TitleText(self._image_index, <<self._labels[self._image_index + 1]>>)


\* The label entries of the images other than the one at index are the same
\* in the two instances.
SameButAt(obj, pre, index) ==
    /\ Len(obj._labels) = Len(pre._labels)
    /\ Len(obj._onehot) = Len(pre._onehot)
    /\ \A i \in DOMAIN obj._labels : i # index + 1 => obj._labels[i] = pre._labels[i]
    /\ \A i \in DOMAIN obj._onehot : i # index + 1 => obj._onehot[i] = pre._onehot[i]

\* The label entries start unset (exclusive mode, no initial labels) or
\* all false (multiclass mode).
StartsUnset ==
    last.op = "__init__" =>
        /\ self._onehot = Zeros(self._N_images, Len(self._classes))
        /\ args.init_labels.is_none => self._labels = Repeat(None, self._N_images)

\* A key press, other than of a class key, and an image_index assignment
\* change no label entry; a class-key press changes no entry but the one of
\* the image that was current.
KeysAndIndexKeepLabels ==
    /\ \/ last.op = "image_index"
       \/ last.op = "_key_press" /\ last.key \notin DOMAIN self._label_keymap
       => self._labels = last.pre._labels /\ self._onehot = last.pre._onehot
    /\ last.op = "_key_press" /\ last.key \in DOMAIN self._label_keymap
       => SameButAt(self, last.pre, last.pre._image_index)

\* C16 as stated: label entries start unset or all false and, a bulk replace
\* through labels apart, change only on class-key events: left/right,
\* image_index assignments, unrecognized keys and the notifications of the
\* presentation side (the state changes of the buttons) never change a label
\* entry; a class-key event changes only the entry of the current image.
C16_OnlyClassKeysChangeLabels ==
    phase = "ready" =>
        /\ StartsUnset
        /\ KeysAndIndexKeepLabels
        /\ last.op = "click" =>
               self._labels = last.pre._labels /\ self._onehot = last.pre._onehot

\* C16 amended: label entries start unset or all false and, a bulk replace
\* through labels apart, change only on class-key events and, in multiclass
\* mode, on a state change of the buttons: left/right, image_index
\* assignments and unrecognized keys never change a label entry; a class-key
\* event and a button state change alter only the entry of the current image.
C16_ClassKeysAndButtonsChangeLabels ==
    phase = "ready" =>
        /\ StartsUnset
        /\ KeysAndIndexKeepLabels
        /\ last.op = "click" => SameButAt(self, last.pre, last.pre._image_index)

\* A click, on an image that is not the first, that changed a label entry of
\* an instance with several images.
C16_Witness ==
    /\ phase = "ready"
    /\ last.op = "click"
    /\ last.raised = "none"
    /\ last.pre._image_index > 0
    /\ self._onehot # last.pre._onehot
    /\ labels(self) # labels(last.pre)


\* The keys of the number row in the order the claim lists them.
DigitKeys == <<"1", "2", "3", "4", "5", "6", "7", "8", "9", "0">>

\* C13: the preset "1234" constructs for every class count from 0 to 10,
\* giving the tokens 1, 2, ..., 9, 0 to the class indices 0..9 in order, and
\* fails with a capacity error (ValueError) above 10; the preset "qwerty"
\* constructs up to 10 classes, giving the successive characters of
\* qwertyuiop, and fails above 10.
C13_PresetCapacity ==
    last.op = "__init__" /\ args.label_keymap.is_str =>
        LET tokens == IF args.label_keymap = Preset1234 THEN DigitKeys ELSE Qwertyuiop
            count == Len(args.classes)
        IN  IF count <= Len(tokens)
            THEN /\ phase = "ready"
                 /\ last.raised = "none"
                 /\ DOMAIN self._label_keymap = {tokens[i] : i \in 1..count}
                 /\ \A i \in 1..count : self._label_keymap[tokens[i]] = i - 1
            ELSE /\ phase = "failed"
                 /\ last.raised = "ValueError"

\* The preset "1234" with as many classes as it has keys: the last class
\* got the key 0.
C13_Witness ==
    /\ phase = "ready"
    /\ args.label_keymap = Preset1234
    /\ Len(self._classes) = Len(DigitKeys)
    /\ self._label_keymap["0"] = Len(DigitKeys) - 1


\* The instance was built with an explicit keymap list shorter than its
\* class list.
ShorterKeymap ==
    /\ ~args.label_keymap.is_str
    /\ Len(args.label_keymap.items) < Len(args.classes)

\* With an explicit keymap list of k tokens, shorter than the class list,
\* the constructor does not fail.
ShorterKeymapConstructs ==
    ShorterKeymap /\ last.op = "__init__" => phase = "ready" /\ last.raised = "none"

\* Key presses alone never label an image with a class of index k or more.
ClassesBeyondKeymapUnassigned ==
    ShorterKeymap /\ phase = "ready" =>
        LET k == Len(args.label_keymap.items)
        IN  /\ \A i \in DOMAIN self._labels :
                   self._labels[i] \in {None} \cup {self._classes[c] : c \in 1..k}
            /\ \A i \in DOMAIN self._onehot :
                   \A c \in DOMAIN self._onehot[i] : c > k => ~self._onehot[i][c]

\* C15: an explicit keymap list of length k shorter than the class list
\* constructs without error; in no state reached by key presses alone is an
\* image labelled with a class of index k or more; and every class of index
\* below k stays assignable by its token, the token at its place in the list.
C15_PrefixAssignable ==
    /\ ShorterKeymapConstructs
    /\ ClassesBeyondKeymapUnassigned
    /\ ShorterKeymap /\ phase = "ready" =>
           \A c \in 1..Len(args.label_keymap.items) :
               /\ args.label_keymap.items[c] \in DOMAIN self._label_keymap
               /\ self._label_keymap[args.label_keymap.items[c]] = c - 1


\* The instance is in exclusive mode with advance-on-label enabled and was
\* built without initial labels.
FreshAdvancingRun ==
    /\ phase = "ready"
    /\ ~self._multi
    /\ self._label_advances
    /\ args.init_labels.is_none

\* C20: in exclusive mode with advance-on-label enabled and no initial
\* labels, class keys pressed from index 0 with nothing in between label the
\* images one at a time in order: after n <= N presses the first n images
\* are labelled and the others are not, n label-assigned events and
\* min(n, N-1) image-changed events were delivered and image_index is
\* min(n, N-1); so after N presses no label is unset, image_index is N-1 and
\* there were exactly N label-assigned and N-1 image-changed events. Every
\* further press overwrites labels[N-1] and nothing else.
C20_RunLabelsEveryImage ==
    FreshAdvancingRun =>
        LET N == self._N_images
            n == run.presses
            reached == IF n < N - 1 THEN n ELSE N - 1
        IN  /\ self._image_index = reached
            /\ n <= N =>
                   /\ \A i \in 1..N : (self._labels[i] # None) <=> i <= n
                   /\ run.label_assigned = n
                   /\ run.image_changed = reached
            /\ n >= N => \A i \in 1..N : self._labels[i] # None
            /\ n > N =>
                   /\ SameButAt(self, last.pre, N - 1)
                   /\ self._image_index = last.pre._image_index
                   /\ last.events = <<LabelAssigned(N - 1, KlassOf(self, last.key))>>
                   /\ self._labels[N] = KlassOf(self, last.key)

\* A run over several images that went one press beyond the last image and
\* replaced the label of the last image by another class.
C20_Witness ==
    /\ FreshAdvancingRun
    /\ self._N_images >= 2
    /\ run.presses = self._N_images + 1
    /\ run.label_assigned = self._N_images + 1
    /\ run.image_changed = self._N_images - 1
    /\ self._labels[self._N_images] # last.pre._labels[self._N_images]

====
